---- MODULE Spec2Model ----
(***************************************************************************)
(* Model of the language services of powerquery-language-services:         *)
(*   - the workspace cache (lexer -> snapshot -> parse -> inspection),     *)
(*   - the analysis session (DocumentAnalysis) with its provider fan-out,  *)
(*   - the cursor-to-token resolver (maybeTokenAt).                        *)
(* The stage engine (PQP.Lexer.tryLex, ...) and the symbol providers are   *)
(* external: the engine is a pure function of its arguments, a provider    *)
(* task resolves or rejects at a moment of its own choosing.               *)
(***************************************************************************)
EXTENDS Integers, Sequences, FiniteSets, TLC

(***************************************************************************)
(* Bounds and input sets                                                   *)
(***************************************************************************)
\* Number of Position objects the host holds.  Objects 2k-1 and 2k carry the
\* same (line, character) but are distinct objects.  The cursor of a
\* Position object is at character 20, the end of `Test.SquareIfNumber(`.
NumPositions == 3

Uris == {"u1", "u2"}

\* Document texts, one per behaviour of the stage engine.
Texts == {"good", "lexbad", "snapbad", "parsebad", "inspbad"}

Documents == [uri : Uris, text : Texts]

Resolvers == {"undefined"}

Positions == 1 .. NumPositions

PositionObject(p) == [id |-> p, line |-> (p - 1) \div 2, character |-> 20]

PositionValues == {<<PositionObject(p).line, PositionObject(p).character>> : p \in Positions}

(***************************************************************************)
(* CacheStageKind and cache items                                          *)
(***************************************************************************)
Lexer == "Lexer"
LexerSnapshot == "LexerSnapshot"
Parser == "Parser"
Inspection == "Inspection"

\* The payload of an outcome: what the engine computed it from.
Payload(text, locale, resolver, line, character) ==
    [text |-> text, locale |-> locale, resolver |-> resolver,
     line |-> line, character |-> character]

NoPayload == Payload("", "", "", -1, -1)

\* The JavaScript value undefined, where a cache item is expected.
Undefined == [kind |-> "Undefined", stage |-> "", payload |-> NoPayload]

Ok(payload) == [kind |-> "Ok", payload |-> payload]

Err(payload) == [kind |-> "Err", payload |-> payload]

isErr(result) == result.kind = "Err"

\* { ...result, stage }
WithStage(result, stage) ==
    [kind |-> result.kind, stage |-> stage, payload |-> result.payload]

(***************************************************************************)
(* The stage engine (PQP), a pure function of its arguments                *)
(***************************************************************************)
DefaultLocale == "en-US"

getSettings(maybeLocale, maybeExternalTypeResolver) ==
    [locale |-> IF maybeLocale = "undefined" THEN DefaultLocale ELSE maybeLocale,
     maybeExternalTypeResolver |-> maybeExternalTypeResolver]

\* The stage at which the engine fails on a text ("" when it never does).
FailStage(text) ==
    CASE text = "lexbad" -> Lexer
      [] text \in {"snapbad", "openstring", "lines"} -> LexerSnapshot
      [] text \in {"parsebad", "nameless", "unknownfn", "Test.SquareIfNumber(1",
                   "Test.SquareIfNumber(1,"} -> Parser
      [] text = "inspbad" -> Inspection
      [] OTHER -> ""

tryLex(settings, text) ==
    LET p == Payload(text, settings.locale, "", -1, -1)
    IN IF FailStage(text) = Lexer THEN Err(p) ELSE Ok(p)

trySnapshot(lexerState) ==
    LET p == Payload(lexerState.text, lexerState.locale, "", -1, -1)
    IN IF FailStage(lexerState.text) = LexerSnapshot THEN Err(p) ELSE Ok(p)

tryParse(settings, lexerSnapshot) ==
    LET p == Payload(lexerSnapshot.text, settings.locale, "", -1, -1)
    IN IF FailStage(lexerSnapshot.text) = Parser THEN Err(p) ELSE Ok(p)

\* tryInspection takes the tried parse, Ok or Err: a parse error carries the
\* partial parse state, which is inspected.
tryInspection(settings, triedParse, position) ==
    LET p == Payload(triedParse.payload.text, settings.locale,
                     settings.maybeExternalTypeResolver,
                     position.lineNumber, position.lineCodeUnit)
    IN IF FailStage(triedParse.payload.text) = Inspection THEN Err(p) ELSE Ok(p)

(***************************************************************************)
(* Document text and the tokens of the lexer state                         *)
(***************************************************************************)
Identifier == "Identifier"

Token(kind, data, positionStart, positionEnd) ==
    [kind |-> kind, data |-> data,
     positionStart |-> positionStart, positionEnd |-> positionEnd]

\* The JavaScript value undefined, where a LineToken is expected.
UndefinedToken == Token("undefined", <<>>, -1, -1)

\* A string as its characters.  TestLibraryName: the names of the catalog
\* of the tests.
TestDot == <<"T", "e", "s", "t", ".">>

TestLibraryName(member) ==
    CASE member = "CreateFooAndBarRecord" ->
            TestDot \o <<"C", "r", "e", "a", "t", "e", "F", "o", "o", "A", "n",
                         "d", "B", "a", "r", "R", "e", "c", "o", "r", "d">>
      [] member = "SquareIfNumber" ->
            TestDot \o <<"S", "q", "u", "a", "r", "e", "I", "f", "N", "u", "m",
                         "b", "e", "r">>
      [] member = "Number" -> TestDot \o <<"N", "u", "m", "b", "e", "r">>
      [] member = "NumberOne" ->
            TestDot \o <<"N", "u", "m", "b", "e", "r", "O", "n", "e">>

UnknownIdentifier ==
    <<"U", "n", "k", "n", "o", "w", "n", "I", "d", "e", "n", "t", "i", "f",
      "i", "e", "r">>

Spaces(n) == [i \in 1 .. n |-> " "]

\* The lines of a text, each a sequence of characters.  The five texts of
\* Texts (inspbad invokes a constant); an invocation of a number (nameless), of a function the catalog
\* does not have (unknownfn), and one followed by a string left open
\* (openstring); the texts of the tests; lines for the cases of the
\* resolver.
TextLines(text) ==
    CASE text = "good" -> << TestLibraryName("CreateFooAndBarRecord") >>
      [] text = "lexbad" -> << <<"#", "!">> >>
      [] text = "snapbad" -> << TestLibraryName("SquareIfNumber") \o <<".">> >>
      [] text = "parsebad" -> << TestLibraryName("SquareIfNumber") \o <<"(">> >>
      [] text = "inspbad" -> << Spaces(8) \o TestLibraryName("Number") \o <<"(">> >>
      [] text = "nameless" -> << Spaces(18) \o <<"1", "(">> >>
      [] text = "unknownfn" -> << Spaces(2) \o UnknownIdentifier \o <<"(">> >>
      [] text = "openstring" ->
            << TestLibraryName("SquareIfNumber") \o <<"(", "\"">> >>
      [] text = "Test.NumberO" -> << TestLibraryName("Number") \o <<"O">> >>
      [] text = "Test.Numbe" -> << SubSeq(TestLibraryName("Number"), 1, 10) >>
      [] text = "UnknownIdentifier" -> << UnknownIdentifier >>
      [] text = "Test" -> << SubSeq(TestDot, 1, 4) >>
      [] text = "Test.SquareIfNumber(1" ->
            << TestLibraryName("SquareIfNumber") \o <<"(", "1">> >>
      [] text = "Test.SquareIfNumber(1," ->
            << TestLibraryName("SquareIfNumber") \o <<"(", "1", ",">> >>
      [] text = "lines" -> << <<"a", ".">>, <<>>, <<"1", ".", " ">>, <<"a", "(", ")">>,
                              <<"a", " ", ".">> >>

\* A token of a line: its kind and the span of characters it covers, its
\* data being the characters of the span.
Lexed(text, line, kind, positionStart, positionEnd) ==
    Token(kind, SubSeq(TextLines(text)[line + 1], positionStart + 1, positionEnd),
          positionStart, positionEnd)

\* lexerState.lines[i].tokens, lines counted from 0 as in the source.  A
\* "." that no token continues is left out of the tokens of its line.
StateLines(text) ==
    CASE text = "good" -> << <<Lexed(text, 0, Identifier, 0, 26)>> >>
      [] text = "snapbad" -> << <<Lexed(text, 0, Identifier, 0, 19)>> >>
      [] text = "parsebad" -> << <<Lexed(text, 0, Identifier, 0, 19),
                                   Lexed(text, 0, "LeftParenthesis", 19, 20)>> >>
      [] text = "inspbad" -> << <<Lexed(text, 0, Identifier, 8, 19),
                                  Lexed(text, 0, "LeftParenthesis", 19, 20)>> >>
      [] text = "nameless" -> << <<Lexed(text, 0, "NumericLiteral", 18, 19),
                                   Lexed(text, 0, "LeftParenthesis", 19, 20)>> >>
      [] text = "unknownfn" -> << <<Lexed(text, 0, Identifier, 2, 19),
                                    Lexed(text, 0, "LeftParenthesis", 19, 20)>> >>
      [] text = "openstring" -> << <<Lexed(text, 0, Identifier, 0, 19),
                                     Lexed(text, 0, "LeftParenthesis", 19, 20)>> >>
      [] text = "Test.NumberO" -> << <<Lexed(text, 0, Identifier, 0, 12)>> >>
      [] text = "Test.Numbe" -> << <<Lexed(text, 0, Identifier, 0, 10)>> >>
      [] text = "UnknownIdentifier" -> << <<Lexed(text, 0, Identifier, 0, 17)>> >>
      [] text = "Test" -> << <<Lexed(text, 0, Identifier, 0, 4)>> >>
      [] text = "Test.SquareIfNumber(1" ->
            << <<Lexed(text, 0, Identifier, 0, 19),
                 Lexed(text, 0, "LeftParenthesis", 19, 20),
                 Lexed(text, 0, "NumericLiteral", 20, 21)>> >>
      [] text = "Test.SquareIfNumber(1," ->
            << <<Lexed(text, 0, Identifier, 0, 19),
                 Lexed(text, 0, "LeftParenthesis", 19, 20),
                 Lexed(text, 0, "NumericLiteral", 20, 21),
                 Lexed(text, 0, "Comma", 21, 22)>> >>
      [] text = "lines" ->
            << <<Lexed(text, 0, Identifier, 0, 1)>>,
               <<>>,
               <<Lexed(text, 2, "NumericLiteral", 0, 1)>>,
               <<Lexed(text, 3, Identifier, 0, 1),
                 Lexed(text, 3, "LeftParenthesis", 1, 2),
                 Lexed(text, 3, "RightParenthesis", 2, 3)>>,
               <<Lexed(text, 4, Identifier, 0, 1)>> >>
      [] OTHER -> <<>>

Max(a, b) == IF a >= b THEN a ELSE b

Min(a, b) == IF a <= b THEN a ELSE b

\* document.getText(range) for a range within one line; offsets outside the
\* line are clamped.
getText(text, line, startCharacter, endCharacter) ==
    IF line < 0 \/ line >= Len(TextLines(text))
    THEN <<>>
    ELSE LET chars == TextLines(text)[line + 1]
         IN SubSeq(chars, Max(startCharacter, 0) + 1, Min(endCharacter, Len(chars)))

\* The first token of a line that a predicate on its index selects, or 0.
RECURSIVE FirstIndex(_, _, _)
FirstIndex(lineTokens, chosen, i) ==
    IF i > Len(lineTokens) THEN 0
    ELSE IF i \in chosen THEN i
    ELSE FirstIndex(lineTokens, chosen, i + 1)

\* A span that leaves out the offset of its end.
Contains_EndExclusive(token, character) ==
    token.positionStart <= character /\ token.positionEnd > character

Contains(token, character) ==
    token.positionStart <= character /\ token.positionEnd >= character

\* maybeTokenAt whose trailing dot extends a token of any kind.
TokenIn_AnyKindDotted(lineTokens, text, position) ==
    LET found == FirstIndex(lineTokens,
                            {i \in 1 .. Len(lineTokens) :
                                Contains(lineTokens[i], position.character)}, 1)
        dotted == FirstIndex(lineTokens,
                             {i \in 1 .. Len(lineTokens) :
                                 Contains(lineTokens[i], position.character - 1)}, 1)
    IN IF found # 0 THEN lineTokens[found]
       ELSE IF /\ getText(text, position.line, position.character - 1,
                          position.character) = <<".">>
               /\ dotted # 0
            THEN Token(lineTokens[dotted].kind,
                       lineTokens[dotted].data \o <<".">>,
                       lineTokens[dotted].positionStart,
                       lineTokens[dotted].positionEnd + 1)
            ELSE UndefinedToken

\* maybeTokenAt that returns the last token that contains the cursor.
TokenIn_LastContaining(lineTokens, text, position) ==
    LET containing == {i \in 1 .. Len(lineTokens) :
                          Contains(lineTokens[i], position.character)}
        dotted == FirstIndex(lineTokens,
                             {i \in 1 .. Len(lineTokens) :
                                 /\ Contains(lineTokens[i], position.character - 1)
                                 /\ lineTokens[i].kind = Identifier}, 1)
    IN IF containing # {}
       THEN lineTokens[CHOOSE i \in containing : \A j \in containing : j <= i]
       ELSE IF /\ getText(text, position.line, position.character - 1,
                          position.character) = <<".">>
               /\ dotted # 0
            THEN Token(lineTokens[dotted].kind,
                       lineTokens[dotted].data \o <<".">>,
                       lineTokens[dotted].positionStart,
                       lineTokens[dotted].positionEnd + 1)
            ELSE UndefinedToken

\* maybeTokenAt, given the tokens of the cursor's line.
TokenIn(lineTokens, text, position) ==
    LET found == FirstIndex(lineTokens,
                            {i \in 1 .. Len(lineTokens) :
                                Contains(lineTokens[i], position.character)}, 1)
        dotted == FirstIndex(lineTokens,
                             {i \in 1 .. Len(lineTokens) :
                                 /\ Contains(lineTokens[i], position.character - 1)
                                 /\ lineTokens[i].kind = Identifier}, 1)
    IN IF found # 0 THEN lineTokens[found]
       ELSE IF /\ getText(text, position.line, position.character - 1,
                          position.character) = <<".">>
               /\ dotted # 0
            THEN Token(lineTokens[dotted].kind,
                       lineTokens[dotted].data \o <<".">>,
                       lineTokens[dotted].positionStart,
                       lineTokens[dotted].positionEnd + 1)
            ELSE UndefinedToken

\* The outcome of a call that may throw: a value, or thrown.
Returned(value) == [thrown |-> FALSE, value |-> value]

Thrown == [thrown |-> TRUE, value |-> UndefinedToken]

\* maybeLineTokensAt and maybeTokenAt on the item that getLexerState
\* returned.  The lines are those of the lexer state of an Ok item; an Err
\* item carries no state, lexResult.lines is undefined and indexing it
\* throws a TypeError.
maybeTokenAt(lexResult, text, position) ==
    IF isErr(lexResult)
    THEN Thrown
    ELSE LET lines == StateLines(lexResult.payload.text)
         IN IF position.line < 0 \/ position.line >= Len(lines)
            THEN Returned(UndefinedToken)
            ELSE Returned(TokenIn(lines[position.line + 1], text, position))

\* maybeIdentifierAt without the test of the token's kind.
maybeIdentifierAt_AnyKind(lexResult, text, position) ==
    maybeTokenAt(lexResult, text, position)

maybeIdentifierAt(lexResult, text, position) ==
    LET maybeToken == maybeTokenAt(lexResult, text, position)
    IN IF maybeToken.thrown THEN Thrown
       ELSE IF maybeToken.value # UndefinedToken /\ maybeToken.value.kind = Identifier
            THEN maybeToken
            ELSE Returned(UndefinedToken)

getTokenRangeForPosition(token, cursorPosition) ==
    [line |-> cursorPosition.line,
     start |-> token.positionStart, end |-> token.positionEnd]

(***************************************************************************)
(* State                                                                   *)
(***************************************************************************)
VARIABLES
    LexerStateCache,      \* uri -> LexerCacheItem or Undefined
    LexerSnapshotCache,   \* uri -> TLexerSnapshotCacheItem or Undefined
    ParserCache,          \* uri -> TParserCacheItem or Undefined
    InspectionCache,      \* uri -> Undefined or a map Position object -> item
    engineCalls,          \* uri -> engine function -> invocations since the
                          \*   uri was last evicted
    inspectionCalls,      \* uri -> (line, character) -> tryInspection
                          \*   invocations since the uri was last evicted
    last,                 \* the last call of the cache's interface
    session,              \* the analysis session (DocumentAnalysis) and
                          \*   its request in flight
    probe                 \* a call of a function of the analysis module on
                          \*   arguments of the host's choice: the arguments
                          \*   and, once it has run, what it returned

vars == <<LexerStateCache, LexerSnapshotCache, ParserCache, InspectionCache,
          engineCalls, inspectionCalls, last, session, probe>>

EngineFns == {"tryLex", "trySnapshot", "tryParse"}

\* The maps of the module and the invocation log, as one value.
Workspace ==
    [LexerStateCache |-> LexerStateCache,
     LexerSnapshotCache |-> LexerSnapshotCache,
     ParserCache |-> ParserCache,
     InspectionCache |-> InspectionCache,
     engineCalls |-> engineCalls,
     inspectionCalls |-> inspectionCalls]

\* An InspectionMap (WeakMap<Position, TInspectionCacheItem>): the Position
\* objects it has, by identity, and the item it gets for each.
InspectionMap(keys, items) == [defined |-> TRUE, keys |-> keys, items |-> items]

\* new WeakMap()
EmptyMap == InspectionMap({}, [p \in Positions |-> Undefined])

\* The JavaScript value undefined, where an InspectionMap is expected.
UndefinedMap == [defined |-> FALSE, keys |-> {}, items |-> [p \in Positions |-> Undefined]]

Invoked(W, uri, fn) ==
    [W EXCEPT !.engineCalls[uri][fn] = @ + 1]

(***************************************************************************)
(* workspaceCache: getOrCreate and the item factories                      *)
(***************************************************************************)
\* In getOrCreate, `created` is the result of factoryFn(textDocument,
\* maybeLocale) on W: the workspace after the factory's own calls and the
\* value it returns.  It is used on a miss only.

\* getOrCreate without the lookup: the factory runs on every call.
getOrCreate_AlwaysCreates(W, cache, textDocument, created) ==
    LET cacheKey == textDocument.uri
    IN [W |-> [created.W EXCEPT ![cache][cacheKey] = created.value],
        value |-> created.value]

\* getOrCreate whose entry is good for the text it was made from only.
getOrCreate_TextKeyed(W, cache, textDocument, created) ==
    LET cacheKey == textDocument.uri
        maybeValue == W[cache][cacheKey]
    IN IF maybeValue = Undefined \/ maybeValue.payload.text # textDocument.text
       THEN [W |-> [created.W EXCEPT ![cache][cacheKey] = created.value],
             value |-> created.value]
       ELSE [W |-> W, value |-> maybeValue]

getOrCreate(W, cache, textDocument, created) ==
    LET cacheKey == textDocument.uri
        maybeValue == W[cache][cacheKey]
    IN IF maybeValue = Undefined
       THEN [W |-> [created.W EXCEPT ![cache][cacheKey] = created.value],
             value |-> created.value]
       ELSE [W |-> W, value |-> maybeValue]

createLexerCacheItem(W, textDocument, maybeLocale) ==
    [W |-> Invoked(W, textDocument.uri, "tryLex"),
     value |-> WithStage(tryLex(getSettings(maybeLocale, "undefined"),
                                textDocument.text), Lexer)]

getLexerState(W, textDocument, maybeLocale) ==
    getOrCreate(W, "LexerStateCache", textDocument,
                createLexerCacheItem(W, textDocument, maybeLocale))

createLexerSnapshotCacheItem(W, textDocument, maybeLocale) ==
    LET got == getLexerState(W, textDocument, maybeLocale)
        lexerCacheItem == got.value
    IN IF isErr(lexerCacheItem)
       THEN [W |-> got.W, value |-> lexerCacheItem]
       ELSE [W |-> Invoked(got.W, textDocument.uri, "trySnapshot"),
             value |-> WithStage(trySnapshot(lexerCacheItem.payload), LexerSnapshot)]

getTriedLexerSnapshot(W, textDocument, maybeLocale) ==
    getOrCreate(W, "LexerSnapshotCache", textDocument,
                createLexerSnapshotCacheItem(W, textDocument, maybeLocale))

\* createParserCacheItem that tests the stage tag only, not isErr.
createParserCacheItem_IgnoresErr(W, textDocument, maybeLocale) ==
    LET got == getTriedLexerSnapshot(W, textDocument, maybeLocale)
        lexerSnapshotCacheItem == got.value
    IN IF lexerSnapshotCacheItem.stage # LexerSnapshot
       THEN [W |-> got.W, value |-> lexerSnapshotCacheItem]
       ELSE [W |-> Invoked(got.W, textDocument.uri, "tryParse"),
             value |-> WithStage(tryParse(getSettings(maybeLocale, "undefined"),
                                          lexerSnapshotCacheItem.payload), Parser)]

\* createParserCacheItem that makes the snapshot itself instead of asking
\* getTriedLexerSnapshot for it.
createParserCacheItem_OwnSnapshot(W, textDocument, maybeLocale) ==
    LET got == createLexerSnapshotCacheItem(W, textDocument, maybeLocale)
        lexerSnapshotCacheItem == got.value
    IN IF lexerSnapshotCacheItem.stage # LexerSnapshot \/ isErr(lexerSnapshotCacheItem)
       THEN [W |-> got.W, value |-> lexerSnapshotCacheItem]
       ELSE [W |-> Invoked(got.W, textDocument.uri, "tryParse"),
             value |-> WithStage(tryParse(getSettings(maybeLocale, "undefined"),
                                          lexerSnapshotCacheItem.payload), Parser)]

createParserCacheItem(W, textDocument, maybeLocale) ==
    LET got == getTriedLexerSnapshot(W, textDocument, maybeLocale)
        lexerSnapshotCacheItem == got.value
    IN IF lexerSnapshotCacheItem.stage # LexerSnapshot \/ isErr(lexerSnapshotCacheItem)
       THEN [W |-> got.W, value |-> lexerSnapshotCacheItem]
       ELSE [W |-> Invoked(got.W, textDocument.uri, "tryParse"),
             value |-> WithStage(tryParse(getSettings(maybeLocale, "undefined"),
                                          lexerSnapshotCacheItem.payload), Parser)]

getTriedParse(W, textDocument, maybeLocale) ==
    getOrCreate(W, "ParserCache", textDocument,
                createParserCacheItem(W, textDocument, maybeLocale))

\* createTriedInspection that also returns a failed parse without inspecting.
createTriedInspection_SkipsFailedParse(W, textDocument, position, maybeLocale, maybeExternalTypeResolver) ==
    LET got == getTriedParse(W, textDocument, maybeLocale)
        parserCacheItem == got.value
    IN IF parserCacheItem.stage # Parser \/ isErr(parserCacheItem)
       THEN [W |-> got.W, value |-> parserCacheItem]
       ELSE [W |-> [got.W EXCEPT
                      !.inspectionCalls[textDocument.uri][<<position.line, position.character>>] = @ + 1],
             value |-> WithStage(
                 tryInspection(getSettings(maybeLocale, maybeExternalTypeResolver),
                               parserCacheItem,
                               [lineCodeUnit |-> position.character,
                                lineNumber |-> position.line]),
                 Inspection)]

\* createTriedInspection that returns undefined for a document that was not
\* parsed.
createTriedInspection_ReturnsUndefined(W, textDocument, position, maybeLocale, maybeExternalTypeResolver) ==
    LET got == getTriedParse(W, textDocument, maybeLocale)
        parserCacheItem == got.value
    IN IF parserCacheItem.stage # Parser
       THEN [W |-> got.W, value |-> Undefined]
       ELSE [W |-> [got.W EXCEPT
                      !.inspectionCalls[textDocument.uri][<<position.line, position.character>>] = @ + 1],
             value |-> WithStage(
                 tryInspection(getSettings(maybeLocale, maybeExternalTypeResolver),
                               parserCacheItem,
                               [lineCodeUnit |-> position.character,
                                lineNumber |-> position.line]),
                 Inspection)]

createTriedInspection(W, textDocument, position, maybeLocale, maybeExternalTypeResolver) ==
    LET got == getTriedParse(W, textDocument, maybeLocale)
        parserCacheItem == got.value
    IN IF parserCacheItem.stage # Parser
       THEN [W |-> got.W, value |-> parserCacheItem]
       ELSE [W |-> [got.W EXCEPT
                      !.inspectionCalls[textDocument.uri][<<position.line, position.character>>] = @ + 1],
             value |-> WithStage(
                 tryInspection(getSettings(maybeLocale, maybeExternalTypeResolver),
                               parserCacheItem,
                               [lineCodeUnit |-> position.character,
                                lineNumber |-> position.line]),
                 Inspection)]

\* getTriedInspection whose position cache keeps the latest position only.
getTriedInspection_LatestOnly(W, textDocument, position, maybeLocale, maybeExternalTypeResolver) ==
    LET cacheKey == textDocument.uri
        maybePositionCache == W.InspectionCache[cacheKey]
        positionCache == IF maybePositionCache # UndefinedMap
                         THEN maybePositionCache ELSE EmptyMap
        W1 == IF maybePositionCache # UndefinedMap
              THEN W ELSE [W EXCEPT !.InspectionCache[cacheKey] = EmptyMap]
    IN IF position.id \in positionCache.keys
       THEN [W |-> W1, value |-> positionCache.items[position.id]]
       ELSE LET made == createTriedInspection(W1, textDocument, position,
                                              maybeLocale, maybeExternalTypeResolver)
            IN [W |-> [made.W EXCEPT !.InspectionCache[cacheKey] =
                          InspectionMap({position.id},
                                        [EmptyMap.items EXCEPT ![position.id] = made.value])],
                value |-> made.value]

\* The position cache is a WeakMap: its keys are Position objects, compared
\* by identity (position.id), not by (line, character).
getTriedInspection(W, textDocument, position, maybeLocale, maybeExternalTypeResolver) ==
    LET cacheKey == textDocument.uri
        maybePositionCache == W.InspectionCache[cacheKey]
        positionCache == IF maybePositionCache # UndefinedMap
                         THEN maybePositionCache ELSE EmptyMap
        W1 == IF maybePositionCache # UndefinedMap
              THEN W ELSE [W EXCEPT !.InspectionCache[cacheKey] = EmptyMap]
    IN IF position.id \in positionCache.keys
       THEN [W |-> W1, value |-> positionCache.items[position.id]]
       ELSE LET made == createTriedInspection(W1, textDocument, position,
                                              maybeLocale, maybeExternalTypeResolver)
            IN [W |-> [made.W EXCEPT !.InspectionCache[cacheKey] =
                          InspectionMap(positionCache.keys \cup {position.id},
                                        [positionCache.items EXCEPT ![position.id] = made.value])],
                value |-> made.value]

\* close with an AllCaches that lacks LexerStateCache.
closeWorkspace_KeepsLexerState(W, textDocument) ==
    [W EXCEPT !.LexerSnapshotCache[textDocument.uri] = Undefined,
              !.ParserCache[textDocument.uri] = Undefined,
              !.InspectionCache[textDocument.uri] = UndefinedMap,
              !.engineCalls[textDocument.uri] = [f \in EngineFns |-> 0],
              !.inspectionCalls[textDocument.uri] = [v \in PositionValues |-> 0]]

\* close that clears the maps: AllCaches.forEach(map => map.clear()).
closeWorkspace_ClearsMaps(W, textDocument) ==
    [LexerStateCache |-> [u \in Uris |-> Undefined],
     LexerSnapshotCache |-> [u \in Uris |-> Undefined],
     ParserCache |-> [u \in Uris |-> Undefined],
     InspectionCache |-> [u \in Uris |-> UndefinedMap],
     engineCalls |-> [u \in Uris |-> [f \in EngineFns |-> 0]],
     inspectionCalls |-> [u \in Uris |-> [v \in PositionValues |-> 0]]]

\* AllCaches.forEach(map => map.delete(textDocument.uri))
closeWorkspace(W, textDocument) ==
    [W EXCEPT !.LexerSnapshotCache[textDocument.uri] = Undefined,
              !.LexerStateCache[textDocument.uri] = Undefined,
              !.ParserCache[textDocument.uri] = Undefined,
              !.InspectionCache[textDocument.uri] = UndefinedMap,
              !.engineCalls[textDocument.uri] = [f \in EngineFns |-> 0],
              !.inspectionCalls[textDocument.uri] = [v \in PositionValues |-> 0]]

(***************************************************************************)
(* Symbol providers and response values                                    *)
(***************************************************************************)
\* A response or provider answer: a list of completion items (by label), a
\* hover, a signature help, or null.  activeSignature and activeParameter
\* are those of a signature help; NoParameter is its activeParameter: null.
NoParameter == -1

Value(kind, items, data, activeSignature, activeParameter) ==
    [kind |-> kind, items |-> items, data |-> data,
     activeSignature |-> activeSignature, activeParameter |-> activeParameter]

Items(labels) == Value("items", labels, "", -1, NoParameter)

EmptyCompletionItems == Items(<<>>)

Null == Value("null", <<>>, "", -1, NoParameter)

EmptyHover == Value("hover", <<>>, "EmptyHover", -1, NoParameter)

EmptySignatureHelp == Value("signatureHelp", <<>>, "EmptySignatureHelp", 0, NoParameter)

NoValue == Value("none", <<>>, "", -1, NoParameter)

\* The providers in the order getCompletionItems issues their calls.
Providers == <<"library", "keyword", "environment", "local">>

ProviderSet == {Providers[i] : i \in 1 .. Len(Providers)}

\* AnalysisOptions: whether the host supplies each optional provider.
AllOptions == [librarySymbolProvider : BOOLEAN, environmentSymbolProvider : BOOLEAN]

\* A slot the host left empty holds a NullLibrarySymbolProvider.
IsNullProvider(options, provider) ==
    \/ provider = "library" /\ ~options.librarySymbolProvider
    \/ provider = "environment" /\ ~options.environmentSymbolProvider

\* The catalog of the library provider, in the order of its map: the name of
\* each definition, its kind and the text of its hover.
LibraryDefinition(member, name, kind, hover) ==
    [member |-> member, name |-> name, kind |-> kind, hover |-> hover]

SimpleLibraryDefinitions ==
    << LibraryDefinition("CreateFooAndBarRecord", "Test.CreateFooAndBarRecord",
                         "function", "[library function] Test.CreateFooAndBarRecord"),
       LibraryDefinition("Number", "Test.Number",
                         "constant", "[library constant] Test.Number: number"),
       LibraryDefinition("NumberOne", "Test.NumberOne",
                         "constant", "[library constant] Test.NumberOne: number"),
       LibraryDefinition("SquareIfNumber", "Test.SquareIfNumber",
                         "function", "[library function] Test.SquareIfNumber") >>

\* The JavaScript value undefined, where a name (a string) is expected.
NoName == <<>>

IsPrefix(prefix, string) ==
    /\ Len(prefix) <= Len(string)
    /\ SubSeq(string, 1, Len(prefix)) = prefix

\* The definitions of the catalog whose name a predicate on its characters
\* selects, in catalog order.
Named(chosen) ==
    LET Chosen(definition) == TestLibraryName(definition.member) \in chosen
    IN SelectSeq(SimpleLibraryDefinitions, Chosen)

AllNames == {TestLibraryName(SimpleLibraryDefinitions[i].member) :
                i \in 1 .. Len(SimpleLibraryDefinitions)}

\* The keywords of the language the keyword provider knows.
Keywords == << [name |-> <<"l", "e", "t">>, label |-> "let"] >>

\* The keyword provider's completion items: the keywords that the text of
\* the context starts; every keyword for a context without text.
KeywordCompletionItems(context) ==
    LET Starts(keyword) == IsPrefix(context.text, keyword.name)
        matches == SelectSeq(Keywords, Starts)
    IN Items([i \in 1 .. Len(matches) |-> matches[i].label])

\* The library's completion items: the names that start with the text of
\* the context, in catalog order; every name for a context without text.
LibraryCompletionItems(context) ==
    LET matches == Named({name \in AllNames : IsPrefix(context.text, name)})
    IN Items([i \in 1 .. Len(matches) |-> matches[i].name])

\* The items a provider answers getCompletionItems(context) with.  The
\* library and the environment both know Test.CreateFooAndBarRecord.
CompletionAnswer(options, provider, context) ==
    IF IsNullProvider(options, provider) THEN EmptyCompletionItems
    ELSE CASE provider = "keyword" -> KeywordCompletionItems(context)
           [] provider = "library" -> LibraryCompletionItems(context)
           [] provider = "environment" -> Items(<<"Test.CreateFooAndBarRecord">>)
           [] provider = "local" -> Items(<<"x">>)

\* The library's answer to getHover(context): the hover of the definition
\* the identifier names, null when it names none.
HoverAnswer(options, context) ==
    LET matches == Named({context.text})
    IN IF IsNullProvider(options, "library") THEN EmptyHover
       ELSE IF matches # <<>>
            THEN Value("hover", <<>>, matches[1].hover, -1, NoParameter)
            ELSE Null

\* The library's answer to getSignatureHelp(context): the signature of the
\* function the context names, with the argument of the cursor as its
\* active parameter, null when the name is not a function of the catalog.
SignatureHelpAnswer(options, context) ==
    LET matches == Named({context.maybeFunctionName})
    IN IF IsNullProvider(options, "library") THEN EmptySignatureHelp
       ELSE IF matches # <<>> /\ matches[1].kind = "function"
            THEN Value("signatureHelp", <<matches[1].name>>, matches[1].name,
                       0, context.maybeArgumentOrdinal)
            ELSE Null

\* InspectionUtils.maybeSignatureProviderContext(inspected): the invocation
\* around the cursor, if the inspected text has one: the name of the
\* function invoked, when it is an identifier, and the number of arguments
\* that precede the cursor.
SignatureProviderContext(maybeFunctionName, maybeArgumentOrdinal) ==
    [defined |-> TRUE, maybeFunctionName |-> maybeFunctionName,
     maybeArgumentOrdinal |-> maybeArgumentOrdinal]

NoContext ==
    [defined |-> FALSE, maybeFunctionName |-> NoName, maybeArgumentOrdinal |-> NoParameter]

maybeSignatureProviderContext(inspected) ==
    IF inspected.line < 0 \/ inspected.line >= Len(TextLines(inspected.text))
    THEN NoContext
    ELSE LET chars == TextLines(inspected.text)[inspected.line + 1]
             cursor == Min(inspected.character, Len(chars))
             opened == {i \in 1 .. cursor :
                           /\ chars[i] = "("
                           /\ \A j \in (i + 1) .. cursor : chars[j] \notin {"(", ")"}}
         IN IF opened = {} THEN NoContext
            ELSE LET open == CHOOSE i \in opened : TRUE
                     lineTokens == StateLines(inspected.text)[inspected.line + 1]
                     named == {i \in 1 .. Len(lineTokens) :
                                  /\ lineTokens[i].positionEnd = open - 1
                                  /\ lineTokens[i].kind = Identifier}
                     commas == {j \in (open + 1) .. cursor : chars[j] = ","}
                 IN SignatureProviderContext(
                        IF named = {} THEN NoName
                        ELSE lineTokens[CHOOSE i \in named : TRUE].data,
                        Cardinality(commas))

(***************************************************************************)
(* analysis: the session and its three operations                          *)
(***************************************************************************)
\* A provider promise after its .catch(): pending, or fulfilled with the
\* provider's answer or, when the provider failed, with the default.
PendingTask == [status |-> "pending", failed |-> FALSE, value |-> NoValue]

NoTask == [status |-> "none", failed |-> FALSE, value |-> NoValue]

Fulfilled(value) == [status |-> "fulfilled", failed |-> FALSE, value |-> value]

Caught(default) == [status |-> "fulfilled", failed |-> TRUE, value |-> default]

NoTasks == [p \in ProviderSet |-> NoTask]

\* The provider context of a request; its fields are those of the three
\* context types.
ProviderContext(token, range, maybeFunctionName, maybeArgumentOrdinal) ==
    [text |-> token.data, tokenKind |-> token.kind, range |-> range,
     maybeFunctionName |-> maybeFunctionName,
     maybeArgumentOrdinal |-> maybeArgumentOrdinal]

NoRange == [line |-> -1, start |-> -1, end |-> -1]

EmptyContext == ProviderContext(UndefinedToken, NoRange, NoName, NoParameter)

NoDocument == [uri |-> "", text |-> ""]

NoOptions == [librarySymbolProvider |-> FALSE, environmentSymbolProvider |-> FALSE]

NoSession ==
    [state |-> "none", document |-> NoDocument, position |-> 0, options |-> NoOptions,
     maybeTriedInspection |-> Undefined, request |-> "", lexResult |-> Undefined,
     triedInspection |-> Undefined, context |-> EmptyContext, tasks |-> NoTasks,
     firstSettled |-> "", response |-> NoValue]

\* A call of the host with arguments of its choice: the operation, the text
\* and the version of the document, the locale, the cursor, and once the
\* call has run (done) the value or the token it returned.
Probe(op, text, locale, line, character) ==
    [op |-> op, text |-> text, locale |-> locale, line |-> line,
     character |-> character, done |-> FALSE, thrown |-> FALSE,
     value |-> NoValue, token |-> UndefinedToken, version |-> 0]

NoProbe == Probe("none", "", "", -1, -1)

(***************************************************************************)
(* Actions: the exported interface of the workspace cache                  *)
(***************************************************************************)
Store(W) ==
    /\ LexerStateCache' = W.LexerStateCache
    /\ LexerSnapshotCache' = W.LexerSnapshotCache
    /\ ParserCache' = W.ParserCache
    /\ InspectionCache' = W.InspectionCache
    /\ engineCalls' = W.engineCalls
    /\ inspectionCalls' = W.inspectionCalls

RECURSIVE Sum(_, _)
Sum(f, S) ==
    IF S = {} THEN 0
    ELSE LET x == CHOOSE y \in S : TRUE IN f[x] + Sum(f, S \ {x})

\* Engine invocations logged for a uri.
TotalCalls(W, uri) ==
    Sum(W.engineCalls[uri], EngineFns) + Sum(W.inspectionCalls[uri], PositionValues)

\* Maps that hold an entry for a uri.
Entries(W, uri) ==
    Cardinality({c \in {"LexerStateCache", "LexerSnapshotCache", "ParserCache"} :
                    W[c][uri] # Undefined})
    + (IF W.InspectionCache[uri] # UndefinedMap THEN 1 ELSE 0)

\* The record of a call: its operation and arguments, the value it returned
\* and, for a getter, the engine invocations it made (0 on a cache hit), for
\* close and update, the map entries it deleted.
Call(op, textDocument, position, value, n) ==
    [op |-> op, uri |-> textDocument.uri, position |-> position, value |-> value,
     n |-> n]

Init ==
    /\ LexerStateCache = [u \in Uris |-> Undefined]
    /\ LexerSnapshotCache = [u \in Uris |-> Undefined]
    /\ ParserCache = [u \in Uris |-> Undefined]
    /\ InspectionCache = [u \in Uris |-> UndefinedMap]
    /\ engineCalls = [u \in Uris |-> [f \in EngineFns |-> 0]]
    /\ inspectionCalls = [u \in Uris |-> [v \in PositionValues |-> 0]]
    /\ last = [op |-> "none", uri |-> "", position |-> 0, value |-> Undefined, n |-> 0]
    /\ session = NoSession
    /\ probe = NoProbe

\* Each action draws its arguments from the sets it is given.  The analysis
\* session passes no locale; "undefined" is the argument left out.
GetLexerState(docs, locales) ==
    \E textDocument \in docs, maybeLocale \in locales :
        LET got == getLexerState(Workspace, textDocument, maybeLocale)
        IN /\ Store(got.W)
           /\ last' = Call("getLexerState", textDocument, 0, got.value,
                           TotalCalls(got.W, textDocument.uri)
                           - TotalCalls(Workspace, textDocument.uri))
           /\ UNCHANGED <<session, probe>>

GetTriedLexerSnapshot(docs, locales) ==
    \E textDocument \in docs, maybeLocale \in locales :
        LET got == getTriedLexerSnapshot(Workspace, textDocument, maybeLocale)
        IN /\ Store(got.W)
           /\ last' = Call("getTriedLexerSnapshot", textDocument, 0, got.value,
                           TotalCalls(got.W, textDocument.uri)
                           - TotalCalls(Workspace, textDocument.uri))
           /\ UNCHANGED <<session, probe>>

GetTriedParse(docs, locales) ==
    \E textDocument \in docs, maybeLocale \in locales :
        LET got == getTriedParse(Workspace, textDocument, maybeLocale)
        IN /\ Store(got.W)
           /\ last' = Call("getTriedParse", textDocument, 0, got.value,
                           TotalCalls(got.W, textDocument.uri)
                           - TotalCalls(Workspace, textDocument.uri))
           /\ UNCHANGED <<session, probe>>

GetTriedInspection(docs, locales) ==
    \E textDocument \in docs, p \in Positions, maybeLocale \in locales,
       maybeExternalTypeResolver \in Resolvers :
        LET got == getTriedInspection(Workspace, textDocument, PositionObject(p),
                                      maybeLocale, maybeExternalTypeResolver)
        IN /\ Store(got.W)
           /\ last' = Call("getTriedInspection", textDocument, p, got.value,
                           TotalCalls(got.W, textDocument.uri)
                           - TotalCalls(Workspace, textDocument.uri))
           /\ UNCHANGED <<session, probe>>

Close(docs) ==
    \E textDocument \in docs :
        /\ Store(closeWorkspace(Workspace, textDocument))
        /\ last' = Call("close", textDocument, 0, Undefined,
                        Entries(Workspace, textDocument.uri))
        /\ UNCHANGED <<session, probe>>

\* update(textDocument, _changes, _version) only calls close(textDocument).
Changes == {<<>>, <<"edit">>}

Versions == {1, 2}

Update(docs) ==
    \E textDocument \in docs, changes \in Changes, version \in Versions :
        /\ Store(closeWorkspace(Workspace, textDocument))
        /\ last' = Call("update", textDocument, 0, Undefined,
                        Entries(Workspace, textDocument.uri))
        /\ UNCHANGED <<session, probe>>

(***************************************************************************)
(* Actions: the analysis session                                           *)
(***************************************************************************)
\* createAnalysisSession: the constructor asks the workspace cache for the
\* inspection of (document, position) and keeps it.
CreateAnalysisSession(docs, optionSet) ==
    \E textDocument \in docs, p \in Positions, options \in optionSet :
        LET got == getTriedInspection(Workspace, textDocument, PositionObject(p),
                                      "undefined", "undefined")
        IN /\ session.state = "none"
           /\ Store(got.W)
           /\ session' = [NoSession EXCEPT !.state = "created",
                                           !.document = textDocument,
                                           !.position = p,
                                           !.options = options,
                                           !.maybeTriedInspection = got.value]
           /\ UNCHANGED <<last, probe>>

\* getCompletionItems up to its await: the token at the cursor, the context,
\* the four provider calls.
GetCompletionItems ==
    LET got == getLexerState(Workspace, session.document, "undefined")
        maybeToken == maybeTokenAt(got.value, session.document.text,
                                   PositionObject(session.position))
        token == maybeToken.value
    IN /\ session.state = "created"
       /\ Store(got.W)
       /\ IF maybeToken.thrown
          THEN session' = [session EXCEPT !.state = "rejected",
                                          !.request = "getCompletionItems",
                                          !.lexResult = got.value]
          ELSE session' = [session EXCEPT
                  !.state = "awaiting",
                  !.request = "getCompletionItems",
                  !.lexResult = got.value,
                  !.context = IF token # UndefinedToken
                              THEN ProviderContext(token,
                                       getTokenRangeForPosition(token,
                                           PositionObject(session.position)),
                                       NoName, NoParameter)
                              ELSE EmptyContext,
                  !.tasks = [p \in ProviderSet |-> PendingTask]]
       /\ UNCHANGED <<last, probe>>

\* The default a failed provider call is caught to.
DefaultAnswer(request) ==
    IF request = "getCompletionItems" THEN EmptyCompletionItems ELSE Null

Answer(request, options, provider, context) ==
    CASE request = "getCompletionItems" -> CompletionAnswer(options, provider, context)
      [] request = "getHover" -> HoverAnswer(options, context)
      [] request = "getSignatureHelp" -> SignatureHelpAnswer(options, context)

\* A provider's promise resolves.  firstSettled notes the provider whose
\* promise settled first.
ProviderResolves ==
    \E provider \in ProviderSet :
        /\ session.state = "awaiting"
        /\ session.tasks[provider].status = "pending"
        /\ session' = [session EXCEPT
               !.tasks[provider] =
                   Fulfilled(Answer(session.request, session.options, provider,
                                    session.context)),
               !.firstSettled = IF @ = "" THEN provider ELSE @]
        /\ UNCHANGED <<LexerStateCache, LexerSnapshotCache, ParserCache,
                       InspectionCache, engineCalls, inspectionCalls, last, probe>>

\* A provider's promise rejects and the catch turns it into the default.  A
\* null provider does not fail.
ProviderFails ==
    \E provider \in ProviderSet :
        /\ session.state = "awaiting"
        /\ session.tasks[provider].status = "pending"
        /\ ~IsNullProvider(session.options, provider)
        /\ session' = [session EXCEPT
               !.tasks[provider] = Caught(DefaultAnswer(session.request)),
               !.firstSettled = IF @ = "" THEN provider ELSE @]
        /\ UNCHANGED <<LexerStateCache, LexerSnapshotCache, ParserCache,
                       InspectionCache, engineCalls, inspectionCalls, last, probe>>

\* A join that continues as soon as one promise is fulfilled (Promise.race).
AllFulfilled_AnyFulfilled(tasks) ==
    \E p \in ProviderSet : tasks[p].status = "fulfilled"

\* Promise.all has every promise it was given fulfilled.
AllFulfilled(tasks) ==
    \A p \in ProviderSet : tasks[p].status \in {"none", "fulfilled"}

\* A merge in the order of the array given to Promise.all.
mergeCompletionItems_FanOutOrder(libraryResponse, keywordResponse, environmentResponse, localResponse) ==
    Items(libraryResponse.items \o keywordResponse.items
          \o environmentResponse.items \o localResponse.items)

\* A merge in which a failed keyword provider's default replaces the list.
mergeCompletionItems_KeywordGate(libraryResponse, keywordResponse, environmentResponse, localResponse) ==
    IF keywordResponse.items = <<>>
    THEN Items(<<>>)
    ELSE Items(keywordResponse.items \o libraryResponse.items
               \o environmentResponse.items \o localResponse.items)

\* completionItems = keywordResponse.concat(libraryResponse,
\* environmentResponse, localResponse)
mergeCompletionItems(libraryResponse, keywordResponse, environmentResponse, localResponse) ==
    Items(keywordResponse.items \o libraryResponse.items
          \o environmentResponse.items \o localResponse.items)

\* getCompletionItems that asks the workspace cache for the lexer state
\* again after its await.
CompletionItemsJoin_Relexes ==
    /\ session.state = "awaiting"
    /\ session.request = "getCompletionItems"
    /\ AllFulfilled(session.tasks)
    /\ Store(getLexerState(Workspace, session.document, "undefined").W)
    /\ LET libraryResponse == session.tasks["library"].value
           keywordResponse == session.tasks["keyword"].value
           environmentResponse == session.tasks["environment"].value
           localResponse == session.tasks["local"].value
       IN session' = [session EXCEPT
              !.state = "resolved",
              !.response = mergeCompletionItems(libraryResponse, keywordResponse,
                                                environmentResponse, localResponse)]
    /\ UNCHANGED <<last, probe>>

\* getCompletionItems after its await: keyword items, then library,
\* environment and local items.
CompletionItemsJoin ==
    /\ session.state = "awaiting"
    /\ session.request = "getCompletionItems"
    /\ AllFulfilled(session.tasks)
    /\ LET libraryResponse == session.tasks["library"].value
           keywordResponse == session.tasks["keyword"].value
           environmentResponse == session.tasks["environment"].value
           localResponse == session.tasks["local"].value
       IN session' = [session EXCEPT
              !.state = "resolved",
              !.response = mergeCompletionItems(libraryResponse, keywordResponse,
                                                environmentResponse, localResponse)]
    /\ UNCHANGED <<LexerStateCache, LexerSnapshotCache, ParserCache,
                   InspectionCache, engineCalls, inspectionCalls, last, probe>>

\* getHover up to its await, or to its end when no identifier is at the
\* cursor.
GetHover ==
    LET got == getLexerState(Workspace, session.document, "undefined")
        identifierToken == maybeIdentifierAt(got.value, session.document.text,
                                             PositionObject(session.position))
        token == identifierToken.value
    IN /\ session.state = "created"
       /\ Store(got.W)
       /\ IF identifierToken.thrown
          THEN session' = [session EXCEPT !.state = "rejected",
                                          !.request = "getHover",
                                          !.lexResult = got.value]
          ELSE IF token # UndefinedToken
          THEN session' = [session EXCEPT
                  !.state = "awaiting",
                  !.request = "getHover",
                  !.lexResult = got.value,
                  !.context = ProviderContext(token,
                                  getTokenRangeForPosition(token,
                                      PositionObject(session.position)),
                                  NoName, NoParameter),
                  !.tasks = [NoTasks EXCEPT !["library"] = PendingTask]]
          ELSE session' = [session EXCEPT !.state = "resolved",
                                          !.request = "getHover",
                                          !.lexResult = got.value,
                                          !.response = EmptyHover]
       /\ UNCHANGED <<last, probe>>

\* getHover that returns what the library answered, null included.
HoverJoin_ReturnsNull ==
    /\ session.state = "awaiting"
    /\ session.request = "getHover"
    /\ AllFulfilled(session.tasks)
    /\ session' = [session EXCEPT !.state = "resolved",
                                  !.response = session.tasks["library"].value]
    /\ UNCHANGED <<LexerStateCache, LexerSnapshotCache, ParserCache,
                   InspectionCache, engineCalls, inspectionCalls, last, probe>>

\* getHover after its await.
HoverJoin ==
    /\ session.state = "awaiting"
    /\ session.request = "getHover"
    /\ AllFulfilled(session.tasks)
    /\ LET libraryResponse == session.tasks["library"].value
       IN session' = [session EXCEPT
              !.state = "resolved",
              !.response = IF libraryResponse # Null
                           THEN libraryResponse ELSE EmptyHover]
    /\ UNCHANGED <<LexerStateCache, LexerSnapshotCache, ParserCache,
                   InspectionCache, engineCalls, inspectionCalls, last, probe>>

\* getSignatureHelp without the isErr test on the inspection.
GetSignatureHelp_IgnoresErr ==
    /\ session.state = "created"
    /\ \E got \in {getTriedInspection(Workspace, session.document,
                                       PositionObject(session.position),
                                       "undefined", "undefined")} :
         /\ Store(got.W)
         /\ IF got.value = Undefined
            THEN session' = [session EXCEPT !.state = "resolved",
                                            !.request = "getSignatureHelp",
                                            !.triedInspection = got.value,
                                            !.response = EmptySignatureHelp]
            ELSE \E context \in {maybeSignatureProviderContext(got.value.payload)} :
                   IF ~context.defined \/ context.maybeFunctionName = NoName
                   THEN session' = [session EXCEPT
                           !.state = "resolved",
                           !.request = "getSignatureHelp",
                           !.triedInspection = got.value,
                           !.response = EmptySignatureHelp]
                   ELSE session' = [session EXCEPT
                           !.state = "awaiting",
                           !.request = "getSignatureHelp",
                           !.triedInspection = got.value,
                           !.context = ProviderContext(UndefinedToken, NoRange,
                                                       context.maybeFunctionName,
                                                       context.maybeArgumentOrdinal),
                           !.tasks = [NoTasks EXCEPT !["library"] = PendingTask]]
    /\ UNCHANGED <<last, probe>>

\* getSignatureHelp up to its await, or to its end when it returns the empty
\* signature help before calling the provider.  It asks the workspace cache
\* for the inspection again.
GetSignatureHelp ==
    /\ session.state = "created"
    /\ \E got \in {getTriedInspection(Workspace, session.document,
                                       PositionObject(session.position),
                                       "undefined", "undefined")} :
         /\ Store(got.W)
         /\ IF got.value = Undefined \/ isErr(got.value)
            THEN session' = [session EXCEPT !.state = "resolved",
                                            !.request = "getSignatureHelp",
                                            !.triedInspection = got.value,
                                            !.response = EmptySignatureHelp]
            ELSE \E context \in {maybeSignatureProviderContext(got.value.payload)} :
                   IF ~context.defined \/ context.maybeFunctionName = NoName
                   THEN session' = [session EXCEPT
                           !.state = "resolved",
                           !.request = "getSignatureHelp",
                           !.triedInspection = got.value,
                           !.response = EmptySignatureHelp]
                   ELSE session' = [session EXCEPT
                           !.state = "awaiting",
                           !.request = "getSignatureHelp",
                           !.triedInspection = got.value,
                           !.context = ProviderContext(UndefinedToken, NoRange,
                                                       context.maybeFunctionName,
                                                       context.maybeArgumentOrdinal),
                           !.tasks = [NoTasks EXCEPT !["library"] = PendingTask]]
    /\ UNCHANGED <<last, probe>>

\* getSignatureHelp that returns what the library answered, null included.
SignatureHelpJoin_ReturnsNull ==
    /\ session.state = "awaiting"
    /\ session.request = "getSignatureHelp"
    /\ AllFulfilled(session.tasks)
    /\ session' = [session EXCEPT !.state = "resolved",
                                  !.response = session.tasks["library"].value]
    /\ UNCHANGED <<LexerStateCache, LexerSnapshotCache, ParserCache,
                   InspectionCache, engineCalls, inspectionCalls, last, probe>>

\* getSignatureHelp after its await.
SignatureHelpJoin ==
    /\ session.state = "awaiting"
    /\ session.request = "getSignatureHelp"
    /\ AllFulfilled(session.tasks)
    /\ LET libraryResponse == session.tasks["library"].value
       IN session' = [session EXCEPT
              !.state = "resolved",
              !.response = IF libraryResponse # Null
                           THEN libraryResponse ELSE EmptySignatureHelp]
    /\ UNCHANGED <<LexerStateCache, LexerSnapshotCache, ParserCache,
                   InspectionCache, engineCalls, inspectionCalls, last, probe>>

\* The host drops a session whose request has settled.
Dispose ==
    /\ session.state \in {"resolved", "rejected"}
    /\ session' = NoSession
    /\ UNCHANGED <<LexerStateCache, LexerSnapshotCache, ParserCache,
                   InspectionCache, engineCalls, inspectionCalls, last, probe>>

\* The workspace cache under calls for documents of two uris.
Next ==
    \/ GetLexerState(Documents, {"undefined"})
    \/ GetTriedLexerSnapshot(Documents, {"undefined"})
    \/ GetTriedParse(Documents, {"undefined"})
    \/ GetTriedInspection(Documents, {"undefined"})
    \/ Close(Documents)
    \/ Update(Documents)

Spec == Init /\ [][Next]_vars

\* The snapshots of one editor buffer: documents of one uri whose texts
\* lex, fail to lex, and fail to parse.
Snapshots == {d \in Documents : d.uri = "u1" /\ d.text \in {"good", "lexbad", "parsebad"}}

\* The host supplies both optional providers, or neither.
SomeOptions == {o \in AllOptions : o.librarySymbolProvider = o.environmentSymbolProvider}

\* The cache calls of the requests of other sessions: a session asks for the
\* inspection at its position and for the lexer state.
OtherRequest(docs) ==
    \E textDocument \in docs, p \in Positions, inspects \in BOOLEAN :
        LET got == IF inspects
                   THEN getTriedInspection(Workspace, textDocument, PositionObject(p),
                                           "undefined", "undefined")
                   ELSE getLexerState(Workspace, textDocument, "undefined")
        IN /\ Store(got.W)
           /\ UNCHANGED <<last, session, probe>>

\* A completion request with its provider fan-out, next to the edits of the
\* host.
NextCompletion ==
    \/ CreateAnalysisSession(Snapshots, SomeOptions)
    \/ GetCompletionItems
    \/ ProviderResolves
    \/ ProviderFails
    \/ CompletionItemsJoin
    \/ Dispose
    \/ Close(Snapshots)
    \/ Update(Snapshots)

SpecCompletion == Init /\ [][NextCompletion]_vars

\* A hover or signature help request next to the cache calls of other
\* requests and the edits of the host, all on snapshots of one uri.
NextAnalysis ==
    \/ CreateAnalysisSession(Snapshots, SomeOptions)
    \/ GetHover
    \/ HoverJoin
    \/ GetSignatureHelp
    \/ SignatureHelpJoin
    \/ ProviderResolves
    \/ ProviderFails
    \/ Dispose
    \/ OtherRequest(Snapshots)
    \/ Close(Snapshots)
    \/ Update(Snapshots)

SpecAnalysis == Init /\ [][NextAnalysis]_vars

\* The join of a completion request, on the snapshots that lex and the ones
\* that do not, next to the edits of the host.
JoinSnapshots == {d \in Snapshots : d.text \in {"good", "lexbad"}}

NextJoin ==
    \/ CreateAnalysisSession(JoinSnapshots, SomeOptions)
    \/ GetCompletionItems
    \/ ProviderResolves
    \/ ProviderFails
    \/ CompletionItemsJoin
    \/ Dispose
    \/ Close(JoinSnapshots)
    \/ Update(JoinSnapshots)

SpecJoin == Init /\ [][NextJoin]_vars

\* The continuation of an await runs once the awaited promise is fulfilled:
\* the event loop always runs a queued continuation.  Nothing makes a
\* provider's promise settle.
FairCompletion == SpecJoin /\ WF_vars(CompletionItemsJoin)

\* Snapshots of one editor buffer for hover: the cursor is in an identifier
\* of the catalog (good), after the trailing dot of an identifier
\* (snapbad), on a parenthesis (parsebad), or the text does not lex.
HoverSnapshots ==
    [uri : {"u1"}, text : {"good", "snapbad", "parsebad", "lexbad"}]

\* Hover requests next to the edits of the host.
NextHover ==
    \/ CreateAnalysisSession(HoverSnapshots, SomeOptions)
    \/ GetHover
    \/ HoverJoin
    \/ ProviderResolves
    \/ ProviderFails
    \/ Dispose
    \/ Close(HoverSnapshots)
    \/ Update(HoverSnapshots)

SpecHover == Init /\ [][NextHover]_vars

\* Snapshots of one editor buffer for signature help: no invocation at the
\* cursor (good), a failure of a stage (lexbad, openstring, inspbad), an
\* invocation of a function of the catalog (parsebad), of a function it
\* does not have (unknownfn) and of a number (nameless).
SignatureSnapshots ==
    [uri : {"u1"}, text : {"good", "lexbad", "openstring", "inspbad", "parsebad",
                           "unknownfn", "nameless"}]

\* Signature help requests next to the edits of the host.
NextSignatureHelp ==
    \/ CreateAnalysisSession(SignatureSnapshots, SomeOptions)
    \/ GetSignatureHelp
    \/ SignatureHelpJoin
    \/ ProviderResolves
    \/ ProviderFails
    \/ Dispose
    \/ Close(SignatureSnapshots)
    \/ Update(SignatureSnapshots)

SpecSignatureHelp == Init /\ [][NextSignatureHelp]_vars

(***************************************************************************)
(* The calls of the tests: a document of its own, a cursor, one request    *)
(***************************************************************************)
\* The largest character offset of a cursor.
MaxCharacter == 23

Characters == 0 .. MaxCharacter

\* The Position object of a call.
Cursor(line, character) == [id |-> 1, line |-> line, character |-> character]

\* The workspace as a call finds it for a document no call has seen.
NewWorkspace(position) ==
    [LexerStateCache |-> [u \in Uris |-> Undefined],
     LexerSnapshotCache |-> [u \in Uris |-> Undefined],
     ParserCache |-> [u \in Uris |-> Undefined],
     InspectionCache |-> [u \in Uris |-> UndefinedMap],
     engineCalls |-> [u \in Uris |-> [f \in EngineFns |-> 0]],
     inspectionCalls |->
         [u \in Uris |-> [v \in {<<position.line, position.character>>} |-> 0]]]

TestDocument(text) == [uri |-> "u1", text |-> text]

\* The options of the tests: the library of SimpleLibraryDefinitions, no
\* environment provider, and a null provider in place of the local one.
IsolatedAnalysisOptions ==
    [librarySymbolProvider |-> TRUE, environmentSymbolProvider |-> FALSE]

\* The outcome of a request: rejected, or resolved to a value.
Rejected == [thrown |-> TRUE, value |-> NoValue]

ResolvedTo(value) == [thrown |-> FALSE, value |-> value]

\* createCompletionItems(text, library, IsolatedAnalysisOptions): a session
\* on the document and getCompletionItems, every provider answering.
createCompletionItems(text, position) ==
    LET got == getLexerState(NewWorkspace(position), TestDocument(text), "undefined")
        maybeToken == maybeTokenAt(got.value, text, position)
        token == maybeToken.value
        context == IF token # UndefinedToken
                   THEN ProviderContext(token, getTokenRangeForPosition(token, position),
                                        NoName, NoParameter)
                   ELSE EmptyContext
    IN IF maybeToken.thrown THEN Rejected
       ELSE ResolvedTo(mergeCompletionItems(
                CompletionAnswer(IsolatedAnalysisOptions, "library", context),
                CompletionAnswer(IsolatedAnalysisOptions, "keyword", context),
                CompletionAnswer(IsolatedAnalysisOptions, "environment", context),
                EmptyCompletionItems))

\* The texts of the completion tests and other identifiers.
CompletionTexts == {"Test.NumberO", "Test.Numbe", "UnknownIdentifier", "Test", "good"}

CompletionItemsTest ==
    /\ probe.op = "createCompletionItems"
    /\ ~probe.done
    /\ LET made == createCompletionItems(probe.text, Cursor(probe.line, probe.character))
       IN probe' = [probe EXCEPT !.done = TRUE, !.thrown = made.thrown,
                                 !.value = made.value]
    /\ UNCHANGED <<LexerStateCache, LexerSnapshotCache, ParserCache, InspectionCache,
                   engineCalls, inspectionCalls, last, session>>

\* createSignatureHelp(text, library, IsolatedAnalysisOptions): a session on
\* the document and getSignatureHelp, the library answering.
createSignatureHelp(text, position) ==
    LET getSignatureHelp(triedInspection) ==
            LET maybeContext == maybeSignatureProviderContext(triedInspection.payload)
                libraryResponse ==
                    SignatureHelpAnswer(IsolatedAnalysisOptions,
                                        ProviderContext(UndefinedToken, NoRange,
                                                        maybeContext.maybeFunctionName,
                                                        maybeContext.maybeArgumentOrdinal))
            IN IF triedInspection = Undefined \/ isErr(triedInspection)
               THEN ResolvedTo(EmptySignatureHelp)
               ELSE IF ~maybeContext.defined \/ maybeContext.maybeFunctionName = NoName
                    THEN ResolvedTo(EmptySignatureHelp)
                    ELSE ResolvedTo(IF libraryResponse = Null
                                    THEN EmptySignatureHelp ELSE libraryResponse)
    IN CHOOSE made \in
           {getSignatureHelp(got.value) :
               got \in {getTriedInspection(NewWorkspace(position), TestDocument(text),
                                           position, "undefined", "undefined")}} : TRUE

\* The texts of the signature help tests: `Test.SquareIfNumber(` (parsebad)
\* and its continuations, and texts without an invocation of a function of
\* the catalog.
SignatureHelpTexts ==
    {"parsebad", "Test.SquareIfNumber(1", "Test.SquareIfNumber(1,",
     "UnknownIdentifier", "unknownfn", "nameless", "inspbad", "lexbad"}

SignatureHelpTest ==
    /\ probe.op = "createSignatureHelp"
    /\ ~probe.done
    /\ \E made \in {createSignatureHelp(probe.text,
                                         Cursor(probe.line, probe.character))} :
         probe' = [probe EXCEPT !.done = TRUE, !.thrown = made.thrown,
                                !.value = made.value]
    /\ UNCHANGED <<LexerStateCache, LexerSnapshotCache, ParserCache, InspectionCache,
                   engineCalls, inspectionCalls, last, session>>

\* The state before a call whose arguments are any of probes.
Drawn(probes) ==
    /\ LexerStateCache = [u \in Uris |-> Undefined]
    /\ LexerSnapshotCache = [u \in Uris |-> Undefined]
    /\ ParserCache = [u \in Uris |-> Undefined]
    /\ InspectionCache = [u \in Uris |-> UndefinedMap]
    /\ engineCalls = [u \in Uris |-> [f \in EngineFns |-> 0]]
    /\ inspectionCalls = [u \in Uris |-> [v \in PositionValues |-> 0]]
    /\ last = [op |-> "none", uri |-> "", position |-> 0, value |-> Undefined, n |-> 0]
    /\ session = NoSession
    /\ probe \in probes

\* Each test is one call on a text, the cursor anywhere in its line.
InitTests ==
    Drawn({Probe("createCompletionItems", text, "undefined", 0, character) :
               text \in CompletionTexts, character \in Characters}
          \cup {Probe("createSignatureHelp", text, "undefined", 0, character) :
                    text \in SignatureHelpTexts, character \in Characters})

NextTests ==
    \/ CompletionItemsTest
    \/ SignatureHelpTest

SpecTests == InitTests /\ [][NextTests]_vars

(***************************************************************************)
(* The position resolver on a cursor of the host's choice                  *)
(***************************************************************************)
\* Texts of several tokens and lines, with and without a trailing dot, and
\* a text that does not lex.
ResolverTexts == {"lines", "snapbad", "parsebad", "Test.SquareIfNumber(1,", "lexbad"}

\* Lines of the cursor, before the first and past the last line included.
Lines == -1 .. 5

InitResolver ==
    Drawn({Probe("maybeTokenAt", text, "undefined", line, character) :
               text \in ResolverTexts, line \in Lines, character \in Characters})

\* maybeTokenAt(document, position): the lexer state of the document from
\* the workspace cache, then the token of its line.
ResolveToken ==
    LET got == getLexerState(Workspace, TestDocument(probe.text), "undefined")
        maybeToken == maybeTokenAt(got.value, probe.text,
                                   Cursor(probe.line, probe.character))
    IN /\ probe.op = "maybeTokenAt"
       /\ ~probe.done
       /\ Store(got.W)
       /\ probe' = [probe EXCEPT !.done = TRUE, !.thrown = maybeToken.thrown,
                                 !.token = maybeToken.value]
       /\ UNCHANGED <<last, session>>

NextResolver == ResolveToken

SpecResolver == InitResolver /\ [][NextResolver]_vars

(***************************************************************************)
(* The getters called with documents of one uri                            *)
(***************************************************************************)
Locales == {"undefined", "fr-FR"}

\* A getter call of the host: any getter, on any snapshot of the buffer,
\* with any locale and, for getTriedInspection, any Position object.  The
\* probe notes the arguments of the call.
Lookup(docs, locales) ==
    \E op \in {"getLexerState", "getTriedLexerSnapshot", "getTriedParse",
                "getTriedInspection"},
       textDocument \in docs, maybeLocale \in locales, version \in Versions,
       p \in Positions :
        LET got == CASE op = "getLexerState" ->
                            getLexerState(Workspace, textDocument, maybeLocale)
                     [] op = "getTriedLexerSnapshot" ->
                            getTriedLexerSnapshot(Workspace, textDocument, maybeLocale)
                     [] op = "getTriedParse" ->
                            getTriedParse(Workspace, textDocument, maybeLocale)
                     [] op = "getTriedInspection" ->
                            getTriedInspection(Workspace, textDocument, PositionObject(p),
                                               maybeLocale, "undefined")
        IN /\ op # "getTriedInspection" => p = 1
           /\ Store(got.W)
           /\ last' = Call(op, textDocument, IF op = "getTriedInspection" THEN p ELSE 0,
                           got.value,
                           TotalCalls(got.W, textDocument.uri)
                           - TotalCalls(Workspace, textDocument.uri))
           /\ probe' = [Probe(op, textDocument.text, maybeLocale,
                              PositionObject(p).line, PositionObject(p).character)
                            EXCEPT !.done = TRUE, !.version = version]
           /\ UNCHANGED session

NextIdentity ==
    \/ Lookup(Snapshots, Locales)
    \/ Close(Snapshots)
    \/ Update(Snapshots)

SpecIdentity == Init /\ [][NextIdentity]_vars

(***************************************************************************)
(* Properties of the workspace cache                                       *)
(***************************************************************************)
Getters == {"getLexerState", "getTriedLexerSnapshot", "getTriedParse", "getTriedInspection"}

Evictions == {"close", "update"}

\* The map a getter of one document-keyed stage reads.
CacheOf(op) ==
    CASE op = "getLexerState" -> LexerStateCache
      [] op = "getTriedLexerSnapshot" -> LexerSnapshotCache
      [] op = "getTriedParse" -> ParserCache

\* The items stored for the Position objects of a uri.
InspectionItems(uri) ==
    {InspectionCache[uri].items[p] : p \in InspectionCache[uri].keys}

\* An entry of a document-keyed map is replaced or removed by this step.
EntryChanged(uri) ==
    \/ LexerStateCache[uri] # Undefined /\ LexerStateCache'[uri] # LexerStateCache[uri]
    \/ LexerSnapshotCache[uri] # Undefined /\ LexerSnapshotCache'[uri] # LexerSnapshotCache[uri]
    \/ ParserCache[uri] # Undefined /\ ParserCache'[uri] # ParserCache[uri]

\* C1: between two evictions of a document, tryLex, trySnapshot and tryParse
\* are each invoked at most once for it, whatever the outcome; a getter
\* returns the outcome its map stores, and a stored outcome changes only by a
\* close or update of that document.
C1_ComputedOnce ==
    /\ [](\A u \in Uris, f \in EngineFns : engineCalls[u][f] <= 1)
    /\ [](last.op \in Getters \ {"getTriedInspection"}
             => last.value = CacheOf(last.op)[last.uri])
    /\ [][\A u \in Uris :
             EntryChanged(u) => last'.op \in Evictions /\ last'.uri = u]_vars

\* A getter call that was a cache hit on a failed stage.
C1_Witness ==
    /\ last.op = "getTriedLexerSnapshot"
    /\ last.n = 0
    /\ isErr(last.value)
    /\ ParserCache[last.uri] # Undefined

\* C2: after close or update of a document no map holds an entry for its
\* uri, and the next getter call for it invokes the engine, tryLex first.
C2_Evicts ==
    /\ [](last.op \in Evictions =>
             /\ LexerStateCache[last.uri] = Undefined
             /\ LexerSnapshotCache[last.uri] = Undefined
             /\ ParserCache[last.uri] = Undefined
             /\ InspectionCache[last.uri] = UndefinedMap)
    /\ [][(last.op \in Evictions /\ last'.op \in Getters /\ last'.uri = last.uri) =>
             /\ last'.n >= 1
             /\ engineCalls'[last.uri]["tryLex"] = 1
             /\ engineCalls[last.uri]["tryLex"] = 0
             /\ LexerStateCache'[last.uri] # Undefined]_vars

\* An update that deleted the entries of all four maps.
C2_Witness ==
    /\ last.op = "update"
    /\ last.n = 4
    /\ Entries(Workspace, last.uri) = 0

\* The items of the maps downstream of a stage are all this item.
ForwardedFrom(uri, item, downstream) ==
    /\ \A c \in downstream : c[uri] \in {Undefined, item}
    /\ InspectionItems(uri) \subseteq {item}

\* C3: a failed lexer or snapshot stage is what every downstream getter
\* returns, with the failing stage's tag and payload, and no engine function
\* of a later stage is invoked for the document.
C3_ShortCircuit ==
    \A u \in Uris :
        /\ isErr(LexerStateCache[u]) =>
              /\ ForwardedFrom(u, LexerStateCache[u], {LexerSnapshotCache, ParserCache})
              /\ LexerStateCache[u].stage = Lexer
              /\ engineCalls[u]["trySnapshot"] = 0
              /\ engineCalls[u]["tryParse"] = 0
              /\ \A v \in PositionValues : inspectionCalls[u][v] = 0
              /\ (last.uri = u /\ last.op \in Getters) => last.value = LexerStateCache[u]
        /\ (isErr(LexerSnapshotCache[u]) /\ LexerSnapshotCache[u].stage = LexerSnapshot) =>
              /\ ForwardedFrom(u, LexerSnapshotCache[u], {ParserCache})
              /\ engineCalls[u]["tryParse"] = 0
              /\ \A v \in PositionValues : inspectionCalls[u][v] = 0
              /\ (last.uri = u /\ last.op \in Getters \ {"getLexerState"})
                    => last.value = LexerSnapshotCache[u]

\* getTriedInspection returned the failure of the snapshot stage.
C3_Witness ==
    /\ last.op = "getTriedInspection"
    /\ isErr(last.value)
    /\ last.value.stage = LexerSnapshot
    /\ last.value = LexerSnapshotCache[last.uri]

C5_EqualPositionsShareEntry ==
    \A u \in Uris, v \in PositionValues : inspectionCalls[u][v] <= 1

(***************************************************************************)
(* Properties of the analysis session                                      *)
(***************************************************************************)
CompletionResolved ==
    session.request = "getCompletionItems" /\ session.state = "resolved"

\* The items a provider's call answers in the session's request.
Answered(provider) ==
    CompletionAnswer(session.options, provider, session.context).items

\* What a provider adds to the response: its answer, or nothing if it failed.
Contribution(provider) ==
    IF session.tasks[provider].failed THEN <<>> ELSE Answered(provider)

\* C6: the completion response is the keyword items, then the library, the
\* environment and the local items, as the providers answered them, whatever
\* the order in which their promises settled.
C6_FixedMergeOrder ==
    (CompletionResolved /\ \A p \in ProviderSet : ~session.tasks[p].failed) =>
        session.response = Items(Answered("keyword") \o Answered("library")
                                 \o Answered("environment") \o Answered("local"))

\* No token is at the cursor and the local provider settled first;
\* Test.CreateFooAndBarRecord is listed by the library and by the
\* environment and appears twice.
C6_Witness ==
    /\ CompletionResolved
    /\ session.firstSettled = "local"
    /\ session.response.items = <<"let", "Test.CreateFooAndBarRecord", "Test.Number",
                                  "Test.NumberOne", "Test.SquareIfNumber",
                                  "Test.CreateFooAndBarRecord", "x">>

\* C7: whichever providers fail, a completion request whose provider calls
\* were issued resolves, with the contributions of the others in the fixed
\* order and nothing from a failed one.
C7_FailureIsolation ==
    /\ [](CompletionResolved =>
             session.response = Items(Contribution("keyword") \o Contribution("library")
                                      \o Contribution("environment") \o Contribution("local")))
    /\ [][(session.request = "getCompletionItems" /\ session.state = "awaiting")
             => session'.state \in {"awaiting", "resolved"}]_vars

\* The keyword and the environment provider failed.
C7_Witness ==
    /\ CompletionResolved
    /\ session.tasks["keyword"].failed
    /\ session.tasks["environment"].failed
    /\ session.context = EmptyContext
    /\ session.response.items = <<"Test.CreateFooAndBarRecord", "Test.Number",
                                  "Test.NumberOne", "Test.SquareIfNumber", "x">>

\* C8: a completion request has no response while a provider's promise is
\* pending, and once all four are fulfilled it resolves.
C8_JoinAll ==
    /\ []((session.request = "getCompletionItems"
              /\ \E p \in ProviderSet : session.tasks[p].status = "pending")
             => session.state = "awaiting" /\ session.response = NoValue)
    /\ ((session.request = "getCompletionItems" /\ session.state = "awaiting"
            /\ AllFulfilled(session.tasks))
           ~> CompletionResolved)

\* The response was composed after a caught failure and three answers.
C8_Witness ==
    /\ CompletionResolved
    /\ \A p \in ProviderSet : session.tasks[p].status = "fulfilled"
    /\ session.tasks["local"].failed
    /\ session.firstSettled = "keyword"
\* C9: no request is rejected, and a resolved request has a present value:
\* a list of items, a hover or a signature help.
C9_NeverRejects ==
    /\ session.state # "rejected"
    /\ session.state = "resolved" =>
          session.response.kind \in {"items", "hover", "signatureHelp"}

\* The cache items a request reads to build its response: the lexer state
\* for the token at the cursor, the inspection that getSignatureHelp fetches,
\* and for completion the inspection the constructor handed to the keyword
\* and local providers.
UsedArtifacts ==
    CASE session.request = "getHover" -> {session.lexResult}
      [] session.request = "getSignatureHelp" -> {session.triedInspection}
      [] session.request = "getCompletionItems" ->
            {session.lexResult, session.maybeTriedInspection}
      [] OTHER -> {}

\* C10: every cache item a request uses was computed from the text of the
\* request's own document snapshot.
C10_OwnSnapshot ==
    \A item \in UsedArtifacts :
        item # Undefined => item.payload.text = session.document.text

(***************************************************************************)
(* Properties of hover and signature help                                  *)
(***************************************************************************)
\* The token maybeTokenAt resolves for the session's request, from the
\* lexer item the request got.
Resolved ==
    maybeTokenAt(session.lexResult, session.document.text,
                 PositionObject(session.position))

NoIdentifierResolved ==
    /\ ~Resolved.thrown
    /\ Resolved.value = UndefinedToken \/ Resolved.value.kind # Identifier

\* C11: when the resolver returns no token, or a token that is not an
\* identifier, getHover resolves at once to EmptyHover and calls no
\* provider; a getHover that ends before its await calls none either.
C11_NoHoverTarget ==
    session.request = "getHover" =>
        /\ NoIdentifierResolved =>
              /\ session.state = "resolved"
              /\ session.response = EmptyHover
        /\ (NoIdentifierResolved \/ Resolved.thrown) =>
              /\ session.tasks = NoTasks
              /\ session.firstSettled = ""

\* A hover request with the cursor on a parenthesis, the library supplied.
C11_Witness ==
    /\ session.request = "getHover"
    /\ session.state = "resolved"
    /\ session.options.librarySymbolProvider
    /\ Resolved = Returned(Token("LeftParenthesis", <<"(">>, 19, 20))
    /\ session.response = EmptyHover

IdentifierResolved ==
    /\ ~Resolved.thrown
    /\ Resolved.value # UndefinedToken
    /\ Resolved.value.kind = Identifier

\* What the library answers the hover request of the session.
LibraryHover == HoverAnswer(session.options, session.context)

\* C12: with an identifier at the cursor getHover calls the library
\* provider with that identifier and no other provider; its response is the
\* library's hover, or EmptyHover when the library failed or answered null.
C12_LibraryHoverOnly ==
    (session.request = "getHover" /\ IdentifierResolved) =>
        /\ session.state \in {"awaiting", "resolved"}
        /\ session.context.text = Resolved.value.data
        /\ session.tasks["library"].status \in {"pending", "fulfilled"}
        /\ \A p \in ProviderSet \ {"library"} : session.tasks[p] = NoTask
        /\ session.state = "awaiting" => session.response = NoValue
        /\ session.state = "resolved" =>
              /\ session.tasks["library"].status = "fulfilled"
              /\ session.response =
                    IF session.tasks["library"].failed \/ LibraryHover = Null
                    THEN EmptyHover
                    ELSE LibraryHover

\* The library knows the identifier at the cursor and its call failed.
C12_Witness ==
    /\ session.request = "getHover"
    /\ session.state = "resolved"
    /\ Resolved.value.data = TestLibraryName("CreateFooAndBarRecord")
    /\ LibraryHover.data = "[library function] Test.CreateFooAndBarRecord"
    /\ session.tasks["library"].failed
    /\ session.response = EmptyHover

\* The signature context derived from the inspection the request got.
SignatureContext == maybeSignatureProviderContext(session.triedInspection.payload)

\* The inspection is present and Ok and names the function of an invocation.
Queryable ==
    /\ session.triedInspection # Undefined
    /\ session.triedInspection.kind = "Ok"
    /\ SignatureContext.defined
    /\ SignatureContext.maybeFunctionName # NoName

\* C13: getSignatureHelp calls the library provider exactly when the
\* inspection it got is present and Ok and its signature context names a
\* function, which only the inspection of an invocation of an identifier
\* does; otherwise it resolves at once to EmptySignatureHelp and calls no
\* provider.  It never calls a provider other than the library.
C13_GatedQuery ==
    session.request = "getSignatureHelp" =>
        /\ (session.tasks["library"] # NoTask) <=> Queryable
        /\ \A p \in ProviderSet \ {"library"} : session.tasks[p] = NoTask
        /\ Queryable =>
              /\ session.triedInspection.stage = Inspection
              /\ session.triedInspection.payload.text \in {"parsebad", "unknownfn"}
              /\ session.triedInspection.payload.line = 0
        /\ ~Queryable =>
              /\ session.state = "resolved"
              /\ session.response = EmptySignatureHelp
              /\ session.firstSettled = ""

\* The inspection failed on a text with an invocation at the cursor.
C13_Witness ==
    /\ session.request = "getSignatureHelp"
    /\ session.options.librarySymbolProvider
    /\ isErr(session.triedInspection)
    /\ session.triedInspection.stage = Inspection
    /\ SignatureContext.maybeFunctionName = TestLibraryName("Number")
    /\ session.response = EmptySignatureHelp

\* What the library answers the signature help request of the session.
LibrarySignatureHelp == SignatureHelpAnswer(session.options, session.context)

\* C14: a getSignatureHelp that calls the library provider passes it the
\* function name and argument of the signature context; its response is the
\* library's signature help, or EmptySignatureHelp when the library failed
\* or answered null.
C14_LibrarySignatureHelp ==
    (session.request = "getSignatureHelp" /\ Queryable) =>
        /\ session.state \in {"awaiting", "resolved"}
        /\ session.context.maybeFunctionName = SignatureContext.maybeFunctionName
        /\ session.context.maybeArgumentOrdinal = SignatureContext.maybeArgumentOrdinal
        /\ session.state = "awaiting" => session.response = NoValue
        /\ session.state = "resolved" =>
              /\ session.tasks["library"].status = "fulfilled"
              /\ session.response =
                    IF session.tasks["library"].failed \/ LibrarySignatureHelp = Null
                    THEN EmptySignatureHelp
                    ELSE LibrarySignatureHelp

\* The library answered with the signature of Test.SquareIfNumber.
C14_Witness ==
    /\ session.request = "getSignatureHelp"
    /\ session.state = "resolved"
    /\ ~session.tasks["library"].failed
    /\ session.response.items = <<"Test.SquareIfNumber">>
    /\ session.response.activeSignature = 0
    /\ session.response.activeParameter = 0
    /\ session.response = LibrarySignatureHelp

\* C15: a slot the host left empty adds no completion items, and with no
\* library provider every getHover returns EmptyHover and every
\* getSignatureHelp returns EmptySignatureHelp.
C15_NullProviders ==
    /\ CompletionResolved =>
          \A p \in ProviderSet :
              IsNullProvider(session.options, p) =>
                  /\ session.tasks[p].value = EmptyCompletionItems
                  /\ session.response =
                        Items(Contribution("keyword") \o Contribution("library")
                              \o Contribution("environment") \o Contribution("local"))
    /\ (~session.options.librarySymbolProvider
           /\ session.request \in {"getHover", "getSignatureHelp"}) =>
          /\ session.state \in {"awaiting", "resolved"}
          /\ session.state = "resolved" =>
                session.response = IF session.request = "getHover"
                                   THEN EmptyHover ELSE EmptySignatureHelp

(***************************************************************************)
(* Properties of the library provider in the tests                         *)
(***************************************************************************)
\* The identifier of a completion test, which the cursor is in or at the
\* end of.
Prefix == TextLines(probe.text)[1]

CompletionTested ==
    /\ probe.op = "createCompletionItems"
    /\ probe.done
    /\ probe.character <= Len(Prefix)

\* The names of the catalog from its i-th on that start with the prefix.
RECURSIVE Matching(_)
Matching(i) ==
    IF i > Len(SimpleLibraryDefinitions) THEN <<>>
    ELSE (IF IsPrefix(Prefix, TestLibraryName(SimpleLibraryDefinitions[i].member))
          THEN <<SimpleLibraryDefinitions[i].name>> ELSE <<>>) \o Matching(i + 1)

\* C16: with the library of the tests and no local provider, completion on
\* an identifier that starts no keyword returns the names of the catalog
\* that start with the identifier, in catalog order: Test.NumberOne for
\* Test.NumberO, Test.Number and Test.NumberOne for Test.Numbe, none for
\* UnknownIdentifier.
C16_LibraryPrefixMatches ==
    CompletionTested =>
        /\ ~probe.thrown
        /\ probe.value = Items(Matching(1))
        /\ probe.text = "Test.NumberO" => probe.value.items = <<"Test.NumberOne">>
        /\ probe.text = "Test.Numbe" =>
              probe.value.items = <<"Test.Number", "Test.NumberOne">>
        /\ probe.text = "UnknownIdentifier" => probe.value.items = <<>>

\* Completion at the end of Test.Numbe.
C16_Witness ==
    /\ CompletionTested
    /\ probe.text = "Test.Numbe"
    /\ probe.character = 10
    /\ probe.value.items = <<"Test.Number", "Test.NumberOne">>

SignatureTested == probe.op = "createSignatureHelp" /\ probe.done

\* The cursor is in the argument list of `Test.SquareIfNumber(`: after the
\* parenthesis, which is the 20th character of the text, and in the line.
InArguments ==
    /\ probe.text \in {"parsebad", "Test.SquareIfNumber(1", "Test.SquareIfNumber(1,"}
    /\ probe.character >= 20
    /\ probe.character <= Len(TextLines(probe.text)[1])

\* The argument separators before the cursor.
Separators ==
    Cardinality({j \in 1 .. probe.character : TextLines(probe.text)[1][j] = ","})

\* The cursor is in no invocation of a function of the catalog.
NoInvocation ==
    \/ probe.text \in {"UnknownIdentifier", "unknownfn", "nameless"}
    \/ probe.character < 20

\* C17: in the argument list of an invocation of a function of the catalog
\* signature help has active signature 0 and as active parameter the number
\* of commas before the cursor: 0 after `Test.SquareIfNumber(` and after
\* `Test.SquareIfNumber(1`, 1 after `Test.SquareIfNumber(1,`.  Where no
\* parameter is active the active parameter is null, not 0.
C17_ActiveParameter ==
    SignatureTested =>
        /\ ~probe.thrown
        /\ probe.value.kind = "signatureHelp"
        /\ probe.value.activeSignature = 0
        /\ InArguments =>
              /\ probe.value.items = <<"Test.SquareIfNumber">>
              /\ probe.value.activeParameter = Separators
              /\ probe.value.activeParameter = IF probe.character = 22 THEN 1 ELSE 0
        /\ NoInvocation =>
              /\ probe.value = EmptySignatureHelp
              /\ probe.value.activeParameter = NoParameter
              /\ probe.value.activeParameter # 0

\* Signature help after the comma of `Test.SquareIfNumber(1,`.
C17_Witness ==
    /\ SignatureTested
    /\ probe.text = "Test.SquareIfNumber(1,"
    /\ probe.character = 22
    /\ probe.value.activeSignature = 0
    /\ probe.value.activeParameter = 1

(***************************************************************************)
(* Properties of the position resolver                                     *)
(***************************************************************************)
\* The resolver ran on a document that has a lexer state.
Scanned ==
    /\ probe.op = "maybeTokenAt"
    /\ probe.done
    /\ ~isErr(LexerStateCache["u1"])

LineExists == probe.line >= 0 /\ probe.line < Len(StateLines(probe.text))

\* The tokens of the cursor's line in the lexer state.
LineTokens == IF LineExists THEN StateLines(probe.text)[probe.line + 1] ELSE <<>>

\* The tokens whose span has the cursor in it or at one of its ends.
Containing ==
    {i \in 1 .. Len(LineTokens) :
        /\ LineTokens[i].positionStart <= probe.character
        /\ probe.character <= LineTokens[i].positionEnd}

\* The character before the cursor is a dot.
DotBefore ==
    /\ LineExists
    /\ probe.character >= 1
    /\ probe.character <= Len(TextLines(probe.text)[probe.line + 1])
    /\ TextLines(probe.text)[probe.line + 1][probe.character] = "."

\* The identifiers that end where the dot before the cursor begins.
EndingAtDot ==
    {i \in 1 .. Len(LineTokens) :
        /\ LineTokens[i].positionEnd = probe.character - 1
        /\ LineTokens[i].kind = Identifier}

\* C18: on a lexer state the resolver returns the first token of the
\* cursor's line whose span, both ends included, has the cursor, so the
\* earlier of two tokens that meet at the cursor; it returns no token when the
\* line does not exist, has no tokens, or no token has the cursor and the
\* rule of the trailing dot does not apply.
C18_FirstContainingToken ==
    Scanned =>
        /\ ~probe.thrown
        /\ Containing # {} =>
              probe.token = LineTokens[CHOOSE i \in Containing :
                                          \A j \in Containing : i <= j]
        /\ (\/ ~LineExists
            \/ LineTokens = <<>>
            \/ Containing = {} /\ ~(DotBefore /\ EndingAtDot # {})) =>
              probe.token = UndefinedToken

\* The cursor is between two tokens, `a` and `(`, and the resolver returned
\* the first.
C18_Witness ==
    /\ Scanned
    /\ probe.text = "lines"
    /\ probe.line = 3
    /\ probe.character = 1
    /\ Cardinality(Containing) = 2
    /\ probe.token = Token(Identifier, <<"a">>, 0, 1)

\* C19: when no token of the line has the cursor, the resolver returns a token exactly
\* if the character before the cursor is a dot and the token that ends
\* where the dot begins is an identifier: the identifier with the dot
\* appended to its text, its kind and positionStart, and its positionEnd
\* plus 1; the token of the lexer state stays as it was.
C19_TrailingDot ==
    (Scanned /\ LineExists /\ Containing = {}) =>
        /\ ~probe.thrown
        /\ (DotBefore /\ EndingAtDot # {}) =>
              LET token == LineTokens[CHOOSE i \in EndingAtDot : TRUE]
              IN /\ probe.token = Token(token.kind, token.data \o <<".">>,
                                        token.positionStart, token.positionEnd + 1)
                 /\ probe.token.kind = Identifier
                 /\ probe.token.positionEnd = probe.character
                 /\ token.positionEnd = probe.character - 1
                 /\ token \in {StateLines(LexerStateCache["u1"].payload.text)
                                   [probe.line + 1][i] : i \in 1 .. Len(LineTokens)}
        /\ ~(DotBefore /\ EndingAtDot # {}) => probe.token = UndefinedToken

\* The cursor after the dot of `Test.SquareIfNumber.`.
C19_Witness ==
    /\ Scanned
    /\ probe.text = "snapbad"
    /\ probe.character = 20
    /\ Containing = {}
    /\ probe.token = Token(Identifier, TestLibraryName("SquareIfNumber") \o <<".">>, 0, 20)

(***************************************************************************)
(* Properties of the cache key                                             *)
(***************************************************************************)
\* The entry a getter finds for a uri, for getTriedInspection under a
\* Position object.
Stored(op, uri, p) ==
    IF op = "getTriedInspection"
    THEN IF p \in InspectionCache[uri].keys
         THEN InspectionCache[uri].items[p] ELSE Undefined
    ELSE CacheOf(op)[uri]

\* C20: a getter call finds the entry of the document's uri, for
\* getTriedInspection the entry of the uri under the Position object of the
\* call, whatever the text, the version and the locale of the call are: it
\* returns the stored outcome, invokes no engine function and leaves the
\* maps as they are.
C20_UriIsTheKey ==
    [][(last'.op \in Getters /\ Stored(last'.op, last'.uri, last'.position) # Undefined) =>
          /\ last'.value = Stored(last'.op, last'.uri, last'.position)
          /\ last'.n = 0
          /\ engineCalls' = engineCalls
          /\ inspectionCalls' = inspectionCalls
          /\ LexerStateCache' = LexerStateCache
          /\ LexerSnapshotCache' = LexerSnapshotCache
          /\ ParserCache' = ParserCache
          /\ InspectionCache' = InspectionCache]_vars

\* A hit of getTriedParse with another text, version and locale than those
\* the stored outcome was computed from.
C20_Witness ==
    /\ probe.done
    /\ probe.op = "getTriedParse"
    /\ last.op = "getTriedParse"
    /\ last.n = 0
    /\ last.value = ParserCache["u1"]
    /\ last.value.payload.text = "good"
    /\ probe.text = "parsebad"
    /\ probe.version = 2
    /\ last.value.payload.locale = DefaultLocale
    /\ probe.locale = "fr-FR"

(***************************************************************************)
(* Properties of a request next to the edits of its document               *)
(***************************************************************************)
\* What the four maps hold for a uri.
CachesOf(uri) ==
    <<LexerStateCache[uri], LexerSnapshotCache[uri], ParserCache[uri],
      InspectionCache[uri]>>

Evicted(uri) == CachesOf(uri) = <<Undefined, Undefined, Undefined, UndefinedMap>>

\* The provider calls of the request are issued and it has not resumed.
Issued == session.state = "awaiting"

\* What the request was issued with.
IssuedWith ==
    <<session.request, session.document, session.position, session.options,
      session.context>>

\* C21: once the provider calls of a request are issued, a close or update
\* of its document does not touch the request, which stays in flight until
\* it resolves; an answer a provider gave stays as given and the response is
\* composed of the answers to the context the calls were issued with; the
\* request writes no map, so that the maps of an evicted uri stay empty.
C21_RunsToCompletion ==
    /\ [][Issued =>
             /\ session'.state \in {"awaiting", "resolved"}
             /\ IssuedWith' = IssuedWith
             /\ \A p \in ProviderSet :
                   session.tasks[p].status = "fulfilled"
                       => session'.tasks[p] = session.tasks[p]
             /\ \A u \in Uris :
                   CachesOf(u)' # CachesOf(u) =>
                       /\ session' = session
                       /\ last'.op \in Evictions /\ last'.uri = u
                       /\ Evicted(u)'
             /\ session' # session =>
                   /\ \A u \in Uris : CachesOf(u)' = CachesOf(u)
                   /\ engineCalls' = engineCalls
                   /\ inspectionCalls' = inspectionCalls]_vars
    /\ []((CompletionResolved /\ Evicted(session.document.uri)) =>
             session.response =
                 mergeCompletionItems(Items(Contribution("library")),
                                      Items(Contribution("keyword")),
                                      Items(Contribution("environment")),
                                      Items(Contribution("local"))))

\* The document was closed or updated after the provider calls were issued:
\* its maps are empty, every provider has answered, the library with the
\* names of the catalog, and the request is about to resume.
C21_Witness ==
    /\ Issued
    /\ session.request = "getCompletionItems"
    /\ Evicted(session.document.uri)
    /\ last.op \in Evictions
    /\ \A p \in ProviderSet : session.tasks[p].status = "fulfilled"
    /\ session.tasks["library"].value.items # <<>>

(***************************************************************************)
(* Properties of the entries the maps keep                                 *)
(***************************************************************************)
\* This step removes or replaces an entry stored for a uri: the item of a
\* document-keyed map, the position map, or the item of a Position object.
EntryLost(uri) ==
    \/ EntryChanged(uri)
    \/ /\ InspectionCache[uri] # UndefinedMap
       /\ \/ InspectionCache'[uri] = UndefinedMap
          \/ \E p \in InspectionCache[uri].keys :
                \/ p \notin InspectionCache'[uri].keys
                \/ InspectionCache'[uri].items[p] # InspectionCache[uri].items[p]

\* C22: a stored entry of a document, in any of the four maps and for any
\* Position object, is removed or replaced by a close or update of that
\* document only: a getter call, whatever its text, version, locale and
\* position, leaves every stored entry in place, however many there are.
C22_KeptUntilEvicted ==
    [][\A u \in Uris :
          EntryLost(u) => last'.op \in Evictions /\ last'.uri = u]_vars

\* Every map holds an entry and the position map one for each Position
\* object; the last call, for another text of the uri than the entries were
\* computed from, was a hit and they are all in place.
C22_Witness ==
    /\ last.op \in Getters
    /\ last.n = 0
    /\ probe.done
    /\ LexerStateCache[last.uri] # Undefined
    /\ LexerSnapshotCache[last.uri] # Undefined
    /\ ParserCache[last.uri] # Undefined
    /\ InspectionCache[last.uri].keys = Positions
    /\ probe.text # LexerStateCache[last.uri].payload.text

(***************************************************************************)
(* Properties of the documents a close or update is not for                *)
(***************************************************************************)
\* The entry a getter call reads: the item of the map of its stage, or for
\* getTriedInspection the item of its Position object.
EntryRead(op, uri, p) ==
    IF op = "getTriedInspection"
    THEN IF p \in InspectionCache[uri].keys
         THEN InspectionCache[uri].items[p] ELSE Undefined
    ELSE CacheOf(op)[uri]

\* C23: a close or update of a document leaves what the four maps hold for
\* every other uri as it is, and the engine log of that uri with it; the
\* getter call for another document that follows is a hit on the entry
\* stored before the close: it returns it and invokes nothing.
C23_OtherUrisKept ==
    /\ [][last'.op \in Evictions =>
             \A u \in Uris \ {last'.uri} :
                 /\ CachesOf(u)' = CachesOf(u)
                 /\ engineCalls'[u] = engineCalls[u]
                 /\ inspectionCalls'[u] = inspectionCalls[u]]_vars
    /\ [][(/\ last.op \in Evictions
           /\ last'.op \in Getters
           /\ last'.uri # last.uri
           /\ EntryRead(last'.op, last'.uri, last'.position) # Undefined) =>
             /\ last'.n = 0
             /\ last'.value = EntryRead(last'.op, last'.uri, last'.position)
             /\ \A u \in Uris : u = last'.uri => CachesOf(u)' = CachesOf(u)]_vars

\* A close or update deleted the entries of all four maps for its document
\* while the maps held, and hold, entries for the other uri, the position
\* map one for each Position object.
C23_Witness ==
    /\ last.op \in Evictions
    /\ last.n = 4
    /\ Evicted(last.uri)
    /\ \E u \in Uris \ {last.uri} :
          /\ Entries(Workspace, u) = 4
          /\ InspectionCache[u].keys = Positions
          /\ ~isErr(ParserCache[u])

(***************************************************************************)
(* Properties of the maps taken together                                   *)
(***************************************************************************)
\* C24: for every uri, a parser entry comes with a snapshot entry and a
\* lexer entry, a snapshot entry with a lexer entry, and an item stored for
\* a Position object with a parser entry.
C24_DownwardClosed ==
    \A u \in Uris :
        /\ ParserCache[u] # Undefined =>
              LexerSnapshotCache[u] # Undefined /\ LexerStateCache[u] # Undefined
        /\ LexerSnapshotCache[u] # Undefined => LexerStateCache[u] # Undefined
        /\ InspectionCache[u].keys # {} => ParserCache[u] # Undefined

\* One getTriedInspection call on a uri without entries ran the four stages
\* and left an entry in each map.
C24_Witness ==
    /\ last.op = "getTriedInspection"
    /\ last.n = 4
    /\ Entries(Workspace, last.uri) = 4
    /\ InspectionCache[last.uri].keys = {last.position}

(***************************************************************************)
(* Properties of the stage tags                                            *)
(***************************************************************************)
\* The stages up to the one of a getter, in the order of the pipeline.
StagesUpTo(op) ==
    CASE op = "getLexerState" -> <<Lexer>>
      [] op = "getTriedLexerSnapshot" -> <<Lexer, LexerSnapshot>>
      [] op = "getTriedParse" -> <<Lexer, LexerSnapshot, Parser>>
      [] op = "getTriedInspection" -> <<Lexer, LexerSnapshot, Parser, Inspection>>

\* An item of the stage of a getter: it is present, its tag is that of the
\* stage or of an earlier one, and with the tag of an earlier one it is an
\* Err.
TaggedFor(op, item) ==
    LET stages == StagesUpTo(op)
    IN /\ item # Undefined
       /\ \E i \in 1 .. Len(stages) : item.stage = stages[i]
       /\ item.stage # stages[Len(stages)] => isErr(item)

====
